---- MODULE Spec2Model ----
(***************************************************************************)
(* Model of data_model.py: the LocationSpec geospatial record and its      *)
(* distance queries, the TransactionSet / CitySet enums, ModelSpec and its *)
(* string form, and the validation of UnitSpec.                            *)
(*                                                                         *)
(* Floats are modelled by integers on a small grid; a distance value is a  *)
(* fraction [num, den] so that negative orders p can be represented        *)
(* (den = 0 stands for the float inf that numpy yields for 0.0 ** -k).     *)
(*                                                                         *)
(* A failed call is a result [kind |-> "error", err |-> <exception>].      *)
(* The decorator on _to_planar_transform is taken as transparent (line 20  *)
(* binds JIT, line 27 applies jit), so that the bodies of the functions    *)
(* are what is modelled.  Inputs are floats, as the annotations say.       *)
(*                                                                         *)
(* Two specifications:                                                     *)
(*   Spec       construction and validation of records from raw input, and *)
(*              the string form of a validated ModelSpec.                  *)
(*   SpecQuery  the methods of LocationSpec applied to receivers drawn     *)
(*              from a bounded set of records (self and other are inputs   *)
(*              of the methods).                                           *)
(***************************************************************************)
EXTENDS Integers, Sequences, FiniteSets, TLC

VARIABLES
    a,          \* SpecQuery: the receiver (self) of the distance queries
    b,          \* SpecQuery: the other LocationSpec
    call,       \* the last call: its name and its arguments
    result      \* what the last call returned to its caller, or the error it raised

vars == <<a, b, call, result>>

-----------------------------------------------------------------------------
(* Bounds *)

\* planar coordinates are drawn from 0..MaxCoord
MaxCoord == 4
\* orders p are drawn from -NegOrders..MaxOrder
MaxOrder == 3
NegOrders == 1
\* interval bounds are drawn from 1..MaxCount
MaxCount == 3

Coord == 0..MaxCoord
Orders == (0 - NegOrders)..MaxOrder
\* geodetic inputs inside the projection's domain, whose planar image lies on
\* the grid, and inputs outside it
Lats == {0 - 4, 0 - 3}
Lons == {0 - 47, 0 - 46}
BadLats == {91, 0 - 91}

-----------------------------------------------------------------------------
(* Results *)

Value(n, d) == [kind |-> "value", num |-> n, den |-> d]
Error(e) == [kind |-> "error", err |-> e]
NoCall == [op |-> "none"]
NoResult == [kind |-> "none"]
Point(ne) == [kind |-> "point", north |-> ne[1], east |-> ne[2]]

-----------------------------------------------------------------------------
(* numpy arithmetic on the modelled floats *)

RECURSIVE IntPow(_, _)
IntPow(x, k) == IF k = 0 THEN 1 ELSE x * IntPow(x, k - 1)

RECURSIVE Gcd(_, _)
Gcd(x, y) == IF y = 0 THEN x ELSE Gcd(y, x % y)

Frac(n, d) ==
    IF d = 0 THEN [num |-> 1, den |-> 0]
    ELSE LET g == Gcd(n, d) IN
         IF g = 0 THEN [num |-> 0, den |-> 1] ELSE [num |-> n \div g, den |-> d \div g]

np_abs(x) == IF x < 0 THEN 0 - x ELSE x

\* np.power(x, p) for x >= 0: x**p, 1 for p = 0, 1/x**-p for p < 0 (inf at x = 0)
np_power(x, p) ==
    IF p >= 0 THEN Frac(IntPow(x, p), 1) ELSE Frac(1, IntPow(x, 0 - p))

\* float addition; inf + y = inf
np_add(f, g) ==
    IF f.den = 0 \/ g.den = 0 THEN Frac(1, 0)
    ELSE Frac(f.num * g.den + g.num * f.den, f.den * g.den)

-----------------------------------------------------------------------------
(* _to_planar_transform *)

\* names bound at module level when a function body runs
ModuleGlobals ==
    {"BaseModel", "PositiveFloat", "List", "Any", "Tuple", "Enum", "np", "pyproj",
     "BRL", "unit_id", "Interval", "_to_planar_transform", "LocationSpec",
     "TransactionSet", "CitySet", "ModelSpec", "AVM_AbbrevSpecm", "AddressSpec",
     "UnitSpec"}

\* pyproj.transform(wgs84, utm23, lat, lon): the library's projection, stood in
\* for by a deterministic one-to-one map of the geodetic grid onto the planar grid
pyproj_transform(lat, lon) == <<lat + 4, lon + 47>>

\* the body passes self.lat, self.lon to pyproj.transform, and the function has
\* only the parameters lat, lon and the locals wgs84, utm23
_to_planar_transform(lat, lon) ==
    LET scope == {"lat", "lon", "wgs84", "utm23"} \cup ModuleGlobals
    IN  IF "self" \in scope
        THEN Point(pyproj_transform(lat, lon))
        ELSE Error("NameError")

-----------------------------------------------------------------------------
(* LocationSpec *)

LocationObject(lat, lon, ne) ==
    [lat |-> lat, lon |-> lon, utm_north |-> ne[1], utm_east |-> ne[2]]

\* the records a completed construction of (lat, lon) would hold
Receivers == {LocationObject(lat, lon, pyproj_transform(lat, lon)) : lat \in Lats, lon \in Lons}

\* p : int = 2, the default of the three distance methods
Order(args) == IF Len(args) >= 3 THEN args[3] ELSE 2

utm_distance_noabs(self, utm_north, utm_east, p) ==
    LET dy == np_power(np_abs(utm_north - self.utm_north), p)
        dx == IF p > 0 THEN np_power(utm_east - self.utm_east, p)
              ELSE np_power(np_abs(utm_east - self.utm_east), p)
    IN  np_add(dx, dy)

utm_distance_rooted(self, utm_north, utm_east, p) ==
    LET dy == np_power(np_abs(utm_north - self.utm_north), p)
        dx == np_power(np_abs(utm_east - self.utm_east), p)
        s == np_add(dx, dy)
    IN  IF p = 2 /\ s.den = 1 /\ \E r \in 0..s.num : r * r = s.num
        THEN Frac(CHOOSE r \in 0..s.num : r * r = s.num, 1)
        ELSE s

\* utm_distance: dx + dy, the powered absolute differences, no root
utm_distance(self, utm_north, utm_east, p) ==
    LET dy == np_power(np_abs(utm_north - self.utm_north), p)
        dx == np_power(np_abs(utm_east - self.utm_east), p)
    IN  np_add(dx, dy)

\* lat_lon_distance: transform, then utm_distance with the caller's p
lat_lon_distance(self, lat, lon, p) ==
    LET t == _to_planar_transform(lat, lon)
    IN  IF t.kind = "error" THEN t
        ELSE LET d == utm_distance(self, t.north, t.east, p) IN Value(d.num, d.den)

\* loc_distance: the argument list (self, other.utm_north, utm_east, p) is
\* evaluated first; were every name bound, the bound method would receive five
\* positional arguments for its at most four parameters
loc_distance(self, other, p) ==
    LET scope == {"self", "other", "p"} \cup ModuleGlobals
    IN  IF "utm_east" \notin scope THEN Error("NameError") ELSE Error("TypeError")

\* AVM_AbbrevSpecm.location: (self.lat, self.on)
AbbrevFields ==
    {"city", "transacao", "condominio", "quartos", "banheiros", "vagas", "area",
     "suites", "lat", "lon"}

AVM_AbbrevSpecm_location(abbrev) ==
    IF "on" \in AbbrevFields THEN [kind |-> "pair", lat |-> abbrev.lat, lon |-> abbrev.lon]
    ELSE Error("AttributeError")

\* __init_from_abbrev__: self.__init__(self, location = abbrev_object.location);
\* the keyword value is evaluated before the call, and the call binds location twice
init_from_abbrev(self, abbrev) ==
    LET loc == AVM_AbbrevSpecm_location(abbrev)
    IN  IF loc.kind = "error" THEN loc ELSE Error("TypeError")

-----------------------------------------------------------------------------
(* SpecQuery: the methods of LocationSpec on drawn receivers *)

PlanarArgs == (Coord \X Coord) \cup (Coord \X Coord \X Orders)
GeodeticArgs == (Lats \X Lons) \cup (Lats \X Lons \X Orders)
OrderArgs == {<<>>} \cup {<<p>> : p \in Orders}

UtmDistance_caching(args) ==
    /\ call' = [op |-> "utm_distance", args |-> args]
    /\ LET d == utm_distance(a, args[1], args[2], Order(args))
       IN  result' = Value(d.num, d.den)
    /\ a' = [a EXCEPT !.utm_north = args[1], !.utm_east = args[2]]
    /\ UNCHANGED b

UtmDistance(args) ==
    /\ call' = [op |-> "utm_distance", args |-> args]
    /\ LET d == utm_distance(a, args[1], args[2], Order(args))
       IN  result' = Value(d.num, d.den)
    /\ UNCHANGED <<a, b>>

LatLonDistance(args) ==
    /\ call' = [op |-> "lat_lon_distance", args |-> args]
    /\ result' = lat_lon_distance(a, args[1], args[2], Order(args))
    /\ UNCHANGED <<a, b>>

\* args is the tuple after other: <<>> or <<p>>
LocDistance(args) ==
    /\ call' = [op |-> "loc_distance", args |-> args]
    /\ result' = loc_distance(a, b, IF Len(args) >= 1 THEN args[1] ELSE 2)
    /\ UNCHANGED <<a, b>>

InitFromAbbrev(lat, lon) ==
    /\ call' = [op |-> "__init_from_abbrev__", args |-> <<lat, lon>>]
    /\ result' = init_from_abbrev(a, [lat |-> lat, lon |-> lon])
    /\ UNCHANGED <<a, b>>

InitQuery ==
    /\ a \in Receivers
    /\ b \in Receivers
    /\ call = NoCall
    /\ result = NoResult

NextQuery ==
    \/ \E args \in PlanarArgs : UtmDistance(args)
    \/ \E args \in GeodeticArgs : LatLonDistance(args)
    \/ \E args \in OrderArgs : LocDistance(args)
    \/ \E lat \in Lats, lon \in Lons : InitFromAbbrev(lat, lon)

SpecQuery == InitQuery /\ [][NextQuery]_vars

-----------------------------------------------------------------------------
(* LocationSpec.__init__ *)

\* self.location, self.lat, self.lon are set from location.coordinates, then
\* self.utm_north, self.utm_east from _to_planar_transform(self.lat, self.lon);
\* an exception leaves the caller without an object
LocationSpec_init(lat, lon) ==
    LET t == _to_planar_transform(lat, lon)
    IN  IF t.kind = "error" THEN t
        ELSE [kind |-> "LocationSpec", obj |-> LocationObject(lat, lon, <<t.north, t.east>>)]

-----------------------------------------------------------------------------
(* Enums and ModelSpec *)

\* member name |-> value
TransactionSet == [rental |-> "aluguel", sale |-> "venda"]
CitySet == [sp_capital |-> "sp", rj_capital |-> "rj"]

FieldError(loc, type, permitted) == [loc |-> loc, type |-> type, permitted |-> permitted]

\* a field annotated with an Enum accepts the raw values that are the value of
\* a member
Enum_validate_by_name(E, v) ==
    IF v \in DOMAIN E
    THEN [ok |-> TRUE, member |-> v]
    ELSE [ok |-> FALSE, permitted |-> {E[m] : m \in DOMAIN E}]

Enum_validate(E, v) ==
    IF \E m \in DOMAIN E : E[m] = v
    THEN [ok |-> TRUE, member |-> CHOOSE m \in DOMAIN E : E[m] = v]
    ELSE [ok |-> FALSE, permitted |-> {E[m] : m \in DOMAIN E}]

\* the errors of the fields city : CitySet and transaction : TransactionSet,
\* located under prefix
ModelSpec_errors(prefix, city, transaction) ==
    LET c == Enum_validate(CitySet, city)
        t == Enum_validate(TransactionSet, transaction)
    IN  {FieldError(prefix \o "city", "enum", c.permitted) : x \in IF c.ok THEN {} ELSE {1}}
        \cup
        {FieldError(prefix \o "transaction", "enum", t.permitted) : x \in IF t.ok THEN {} ELSE {1}}

ModelSpec_validate(city, transaction) ==
    LET errors == ModelSpec_errors("", city, transaction)
    IN  IF errors = {}
        THEN [kind |-> "ModelSpec",
              obj |-> [city |-> Enum_validate(CitySet, city).member,
                       transaction |-> Enum_validate(TransactionSet, transaction).member]]
        ELSE [kind |-> "ValidationError", errors |-> errors]

ModelSpec_str_names(self) == self.city \o "_" \o self.transaction

\* __str__: f"{self.city.value}_{self.transaction.value}"
ModelSpec_str(self) == CitySet[self.city] \o "_" \o TransactionSet[self.transaction]

-----------------------------------------------------------------------------
(* UnitSpec *)

\* raw JSON scalars
Num(n) == [t |-> "num", n |-> n]
Text(s) == [t |-> "str", s |-> s]

\* BRL = float, and the items of Interval
float_validate(v) == v.t = "num"

\* Interval = Tuple[float, float]: two items, each a float
Interval_validate(v) == Len(v) = 2 /\ \A i \in 1..2 : float_validate(v[i])

IntervalFields == {"parkingSets", "suites", "bathrooms", "bedrooms"}

UnitSpec_validate(raw) ==
    LET ctx == ModelSpec_errors("model_context.", raw.model_context[1], raw.model_context[2])
        costs == {FieldError("other_costs", "float", {}) :
                    x \in IF float_validate(raw.other_costs) THEN {} ELSE {1}}
        ivals == {FieldError(f, "tuple", {}) :
                    f \in {g \in IntervalFields : ~Interval_validate(raw[g])}}
        loc == LocationSpec_init(raw.location[1], raw.location[2])
        locs == {FieldError("location", loc.err, {}) :
                    x \in IF loc.kind = "error" THEN {1} ELSE {}}
        errors == ctx \cup costs \cup ivals \cup locs
    IN  IF errors = {}
        THEN [kind |-> "UnitSpec",
              obj |-> [model_context |-> ModelSpec_validate(raw.model_context[1],
                                                            raw.model_context[2]).obj,
                       other_costs |-> raw.other_costs.n,
                       parkingSets |-> <<raw.parkingSets[1].n, raw.parkingSets[2].n>>,
                       suites |-> <<raw.suites[1].n, raw.suites[2].n>>,
                       bathrooms |-> <<raw.bathrooms[1].n, raw.bathrooms[2].n>>,
                       bedrooms |-> <<raw.bedrooms[1].n, raw.bedrooms[2].n>>,
                       location |-> loc.obj]]
        ELSE [kind |-> "ValidationError", errors |-> errors]

-----------------------------------------------------------------------------
(* Spec: construction and validation from raw input *)

RawCities == {"sp", "rj", "xx", "sp_capital"}
RawTransactions == {"aluguel", "venda", "xx", "sale"}
RawLocations == ((Lats \cup BadLats) \X (Lons \cup {0}))
RawIntervals ==
    {<<Num(1), Num(MaxCount)>>, <<Num(MaxCount), Num(1)>>, <<Num(1)>>, <<Num(1), Text("x")>>}
RawUnits ==
    [model_context : {<<"sp", "venda">>, <<"xx", "venda">>},
     other_costs : {Num(0)},
     parkingSets : RawIntervals,
     suites : RawIntervals,
     bathrooms : RawIntervals,
     bedrooms : RawIntervals,
     location : {<<0 - 4, 0 - 47>>, <<91, 0>>}]

NoObject == [lat |-> 0, lon |-> 0, utm_north |-> 0, utm_east |-> 0]

ConstructLocation(lat, lon) ==
    /\ call' = [op |-> "LocationSpec", args |-> <<lat, lon>>]
    /\ result' = LocationSpec_init(lat, lon)
    /\ UNCHANGED <<a, b>>

ValidateModelSpec(city, transaction) ==
    /\ call' = [op |-> "ModelSpec", args |-> <<city, transaction>>]
    /\ result' = ModelSpec_validate(city, transaction)
    /\ UNCHANGED <<a, b>>

\* str() of the ModelSpec the caller has just been given
Str ==
    /\ result.kind = "ModelSpec"
    /\ call' = [op |-> "__str__", args |-> <<result.obj>>]
    /\ result' = [kind |-> "str", str |-> ModelSpec_str(result.obj)]
    /\ UNCHANGED <<a, b>>

ValidateUnitSpec(raw) ==
    /\ call' = [op |-> "UnitSpec", args |-> <<raw>>]
    /\ result' = UnitSpec_validate(raw)
    /\ UNCHANGED <<a, b>>

Init ==
    /\ a = NoObject
    /\ b = NoObject
    /\ call = NoCall
    /\ result = NoResult

Next ==
    \/ \E loc \in RawLocations : ConstructLocation(loc[1], loc[2])
    \/ \E city \in RawCities, transaction \in RawTransactions :
          ValidateModelSpec(city, transaction)
    \/ Str
    \/ \E raw \in RawUnits : ValidateUnitSpec(raw)

Spec == Init /\ [][Next]_vars

-----------------------------------------------------------------------------
(* Properties of the distance queries (SpecQuery) *)

DistanceOps == {"utm_distance", "lat_lon_distance", "loc_distance"}

\* the order p of the last distance call (2 when the caller omitted it)
CallOrder ==
    IF call.op = "loc_distance"
    THEN (IF Len(call.args) >= 1 THEN call.args[1] ELSE 2)
    ELSE (IF Len(call.args) >= 3 THEN call.args[3] ELSE 2)

Dist(x, y) == IF x >= y THEN x - y ELSE y - x

\* x multiplied by itself k times, k >= 1
RECURSIVE Powered(_, _)
Powered(x, k) == IF k = 1 THEN x ELSE Powered(x, k - 1) * x

C2_Symmetric ==
    (call.op = "utm_distance" /\ CallOrder > 0) =>
        LET at_b == [utm_north |-> call.args[1], utm_east |-> call.args[2]]
            back == utm_distance(at_b, a.utm_north, a.utm_east, CallOrder)
        IN  result = Value(back.num, back.den)

C2_Witness ==
    /\ call.op = "utm_distance"
    /\ a.utm_north = 1 /\ a.utm_east = 1
    /\ call.args = <<3, 0, 3>>
    /\ result = Value(9, 1)

\* C3: no distance query called with an order p <= 0 yields a distance value
\* (each such call fails with InvalidArgument).
C3_NonPositiveOrderYieldsNoValue ==
    (call.op \in DistanceOps /\ CallOrder <= 0) => result.kind # "value"

\* C4: the lat, lon, utm_north, utm_east of a constructed record are the values
\* computed at construction and no distance query (on it or with it as the
\* argument) nor a failed re-initialisation changes them, and repeating the
\* query just made returns the result it returned.
C4_FieldsNeverChange ==
    /\ [](/\ <<a.utm_north, a.utm_east>> = pyproj_transform(a.lat, a.lon)
          /\ <<b.utm_north, b.utm_east>> = pyproj_transform(b.lat, b.lon))
    /\ [][a' = a /\ b' = b /\ (call' = call => result' = result)]_vars

C4_Witness ==
    /\ call.op = "utm_distance"
    /\ call.args = <<2, 2>>
    /\ a = LocationObject(0 - 4, 0 - 46, <<0, 1>>)
    /\ result = Value(5, 1)

\* C9: for p > 0, a.distance_to(b, p) returns what
\* a.distance_to_planar(b.utm_north, b.utm_east, p) returns.
C9_LocDistanceDelegates ==
    (call.op = "loc_distance" /\ CallOrder > 0) =>
        LET d == utm_distance(a, b.utm_north, b.utm_east, CallOrder)
        IN  result = Value(d.num, d.den)

\* C10: for p > 0 and a valid (lat, lon), r.distance_to_geodetic(lat, lon, p)
\* returns what r.distance_to_planar(north, east, p) returns for
\* (north, east) = transform(lat, lon) of the given arguments.
C10_LatLonDistanceDelegates ==
    (call.op = "lat_lon_distance" /\ CallOrder > 0) =>
        LET ne == pyproj_transform(call.args[1], call.args[2])
            d == utm_distance(a, ne[1], ne[2], CallOrder)
        IN  result = Value(d.num, d.den)

-----------------------------------------------------------------------------
(* Properties of construction and validation (Spec) *)

\* C5: constructing a LocationSpec, alone or as the location of a UnitSpec,
\* from coordinates outside the projection's domain fails with ProjectionError
\* and yields no record.
C5_OutOfDomainFailsWithProjectionError ==
    /\ (call.op = "LocationSpec" /\ call.args[1] \in BadLats) =>
           result = Error("ProjectionError")
    /\ (call.op = "UnitSpec" /\ call.args[1].location[1] \in BadLats) =>
           /\ result.kind = "ValidationError"
           /\ FieldError("location", "ProjectionError", {}) \in result.errors

Reversed(v) ==
    /\ Len(v) = 2
    /\ v[1].t = "num" /\ v[2].t = "num"
    /\ v[1].n > v[2].n

\* C6: validating a UnitSpec rejects every interval attribute whose low
\* exceeds its high (or whose bound is missing or not a number).
C6_BadIntervalRejected ==
    call.op = "UnitSpec" =>
        \A f \in IntervalFields :
            (Reversed(call.args[1][f]) \/ ~Interval_validate(call.args[1][f])) =>
                /\ result.kind = "ValidationError"
                /\ \E e \in result.errors : e.loc = f

\* C7: validating a ModelSpec succeeds exactly when city is one of sp, rj and
\* transaction one of aluguel, venda; any other value fails with an error that
\* names the field and the accepted set, so no ModelSpec has a city or a
\* transaction outside those sets.
C7_EnumsClosed ==
    call.op = "ModelSpec" =>
        LET city == call.args[1]
            transaction == call.args[2]
        IN  /\ (city \in {"sp", "rj"} /\ transaction \in {"aluguel", "venda"})
                   <=> result.kind = "ModelSpec"
            /\ city \notin {"sp", "rj"} =>
                   /\ result.kind = "ValidationError"
                   /\ FieldError("city", "enum", {"sp", "rj"}) \in result.errors
            /\ transaction \notin {"aluguel", "venda"} =>
                   /\ result.kind = "ValidationError"
                   /\ FieldError("transaction", "enum", {"aluguel", "venda"}) \in result.errors
            /\ result.kind = "ModelSpec" =>
                   /\ CitySet[result.obj.city] = city
                   /\ TransactionSet[result.obj.transaction] = transaction

C7_Witness ==
    /\ call.op = "ModelSpec"
    /\ call.args = <<"xx", "venda">>
    /\ result = [kind |-> "ValidationError",
                 errors |-> {FieldError("city", "enum", {"sp", "rj"})}]

ValidModelSpecs == [city : DOMAIN CitySet, transaction : DOMAIN TransactionSet]

\* C8: the string form of a ModelSpec is its city value, an underscore, its
\* transaction value; (sp, sale) gives "sp_venda"; distinct pairs give distinct
\* keys.
C8_ModelKeyString ==
    call.op = "__str__" =>
        LET m == call.args[1]
        IN  /\ (m.city = "sp_capital" /\ m.transaction = "rental") => result.str = "sp_aluguel"
            /\ (m.city = "sp_capital" /\ m.transaction = "sale") => result.str = "sp_venda"
            /\ (m.city = "rj_capital" /\ m.transaction = "rental") => result.str = "rj_aluguel"
            /\ (m.city = "rj_capital" /\ m.transaction = "sale") => result.str = "rj_venda"
            /\ \A m2 \in ValidModelSpecs : ModelSpec_str(m2) = result.str => m2 = m

C8_Witness ==
    /\ call.op = "__str__"
    /\ call.args[1] = [city |-> "sp_capital", transaction |-> "sale"]
    /\ result.str = "sp_venda"

====
